---- MODULE Spec2Model ----
(***************************************************************************)
(* ServerLoader (src/src/server/components/ServerLoader.ts): the lifecycle *)
(* object of the framework.  The model covers construction and autoload of *)
(* the declared settings, the listener factories, and the start() pipeline *)
(* with its hooks, listener startup and failure path.                      *)
(***************************************************************************)
EXTENDS Integers, Sequences, FiniteSets, TLC

(***************************************************************************)
(* Bounds of the model.                                                    *)
(***************************************************************************)
\* events one listener may emit after listen() in one run
MaxEvents == 2
\* configuration calls made on the object after its construction
MaxOps == 2

(***************************************************************************)
(* JavaScript values, tagged by their typeof.                              *)
(***************************************************************************)
Undefined == [type |-> "undefined"]
Null == [type |-> "null"]
Num(n) == [type |-> "number", n |-> n]
Str(s) == [type |-> "string", s |-> s]
Bool(b) == [type |-> "boolean", b |-> b]
Func(f) == [type |-> "function", name |-> f]
Arr(items) == [type |-> "array", items |-> items]
\* an object literal: its own keys in insertion order, as <<key, value>> entries
Obj(entries) == [type |-> "object", entries |-> entries]

\* ToBoolean, as `if (value)` and `a || b` apply it
ToBoolean(v) ==
    CASE v.type = "undefined" -> FALSE
      [] v.type = "null" -> FALSE
      [] v.type = "number" -> v.n # 0
      [] v.type = "string" -> v.s # ""
      [] v.type = "boolean" -> v.b
      [] OTHER -> TRUE

\* Object.keys(o)
ObjectKeys(o) == [i \in 1..Len(o.entries) |-> o.entries[i][1]]

HasKey(entries, k) == \E i \in 1..Len(entries) : entries[i][1] = k

\* o[k] / map.get(k): undefined when the key is absent
Lookup(entries, k) ==
    IF HasKey(entries, k)
    THEN entries[CHOOSE i \in 1..Len(entries) : entries[i][1] = k][2]
    ELSE Undefined

\* Map.prototype.set: an existing key keeps its position, a new key goes last
MapSet(entries, k, v) ==
    IF HasKey(entries, k)
    THEN [i \in 1..Len(entries) |->
            IF entries[i][1] = k THEN <<k, v>> ELSE entries[i]]
    ELSE Append(entries, <<k, v>>)

\* a || b
OrElse(a, b) == IF ToBoolean(a) THEN a ELSE b

\* Object.assign(target, source)
RECURSIVE ObjectAssign(_, _)
ObjectAssign(target, source) ==
    IF Len(source.entries) = 0 THEN target
    ELSE ObjectAssign(
            Obj(MapSet(target.entries, Head(source.entries)[1], Head(source.entries)[2])),
            Obj(Tail(source.entries)))

\* an Error value, named after the place that raised it
Err(at) == [type |-> "error", at |-> at]

(***************************************************************************)
(* State.                                                                  *)
(***************************************************************************)
VARIABLES
    pc,             \* position of the object: "new", "constructed", then start()'s
    ops,            \* configuration calls made since construction
    lastOp,         \* the public operation that ran last
    hooks,          \* names of the optional methods the subclass defines
    badFiles,       \* files whose import throws
    applied,        \* the argument of the configuration call that ran last
    settings,       \* _settings: the provider's store, entries in insertion order
    httpServer,     \* _httpServer: 0 (undefined) or an index into servers
    httpsServer,    \* _httpsServer: 0 (undefined) or an index into servers
    servers,        \* every listener Http/Https.createServer has returned
    scans,          \* scan() calls: [path, endpoint]
    imports,        \* the imports scan() has attempted: [file, endpoint]
    registrations,  \* ControllerService.require(file).mapTo(endpoint) that returned
    errorLog,       \* $log.error calls
    injectorService,\* _injectorService is set
    appStack,       \* expressApp.use calls, in order
    expressApp,     \* _expressApp: the application instance and what set/engine gave it
    useCalls,       \* the use() calls of the subclass: arguments, injector, hook, position
    handled,        \* what the static handlers did with the requests that reached them
    log,            \* the steps of start() that have begun, in order
    inflight,       \* steps begun whose promise has not settled
    awaiting,       \* the step whose promise start() is suspended on, or ""
    listenCalled,   \* listeners on which listen() was called
    emitted,        \* the events the listeners have emitted, in order
    promises,       \* the promises startServers pushed: state and reason
    failed,         \* the first failure of a step start() waited for: step and error
    settledHooks,   \* <<hook, outcome>> of every hook call that has completed
    caught,         \* the error the catch block of start() received
    initErrorCalls, \* argument lists $onServerInitError was called with
    settled,        \* the promise start() returned: "none", "pending", "resolved", "rejected"
    result          \* the value or reason it settled with

cfgVars == <<settings, httpServer, httpsServer, servers, scans, imports, registrations,
             errorLog>>
appVars == <<injectorService, appStack>>
runVars == <<log, inflight, awaiting, listenCalled, emitted, promises, failed,
             settledHooks, caught, initErrorCalls,
             settled, result>>
surfaceVars == <<expressApp, useCalls, handled>>
vars == <<pc, ops, lastOp, hooks, badFiles, applied, cfgVars, appVars, surfaceVars, runVars>>

\* the fields the configuration operations read and write, as one record
Fields ==
    [settings |-> settings, httpServer |-> httpServer, httpsServer |-> httpsServer,
     servers |-> servers, scans |-> scans, imports |-> imports,
     registrations |-> registrations, errorLog |-> errorLog]

SetFields(f) ==
    /\ settings' = f.settings
    /\ httpServer' = f.httpServer
    /\ httpsServer' = f.httpsServer
    /\ servers' = f.servers
    /\ scans' = f.scans
    /\ imports' = f.imports
    /\ registrations' = f.registrations
    /\ errorLog' = f.errorLog

(***************************************************************************)
(* Collaborators outside the class.                                        *)
(***************************************************************************)
\* require("glob").sync(pattern): the files on disk
Glob(pattern) ==
    CASE pattern = "**/*.ts" -> <<"ctrl/a.ts", "ctrl/b.ts", "svc/d.ts", "v2/c.ts">>
      [] pattern = "ctrl/*.ts" -> <<"ctrl/a.ts", "ctrl/b.ts">>
      [] pattern = "v2/*.ts" -> <<"v2/c.ts">>
      [] pattern = "svc/*.ts" -> <<"svc/d.ts">>
      [] OTHER -> <<>>

Files == {"ctrl/a.ts", "ctrl/b.ts", "v2/c.ts", "svc/d.ts"}

\* new ServerSettingsProvider(): the store with its defaults
DefaultSettings == << <<"endpoint", Str("/rest")>> >>

\* ServerSettingsProvider.set(object): every own key of the object is stored
RECURSIVE SettingsSet(_, _)
SettingsSet(store, object) ==
    IF Len(object.entries) = 0 THEN store
    ELSE SettingsSet(MapSet(store, Head(object.entries)[1], Head(object.entries)[2]),
                     Obj(Tail(object.entries)))

\* getSettingsService(): the service over the provider's store, this.settings.$get()
getSettingsService(f) == f.settings

(***************************************************************************)
(* createHttpServer, createHttpsServer, scan, mount.                       *)
(***************************************************************************)
createHttpServer(f, port) ==
    [f EXCEPT !.servers = Append(@, [kind |-> "http", options |-> Undefined]),
              !.httpServer = Len(f.servers) + 1,
              !.settings = MapSet(@, "httpPort", port)]

createHttpsServer(f, options) ==
    [f EXCEPT !.servers = Append(@, [kind |-> "https", options |-> options]),
              !.httpsServer = Len(f.servers) + 1,
              !.settings = MapSet(@, "httpsPort", Lookup(options.entries, "port"))]

\* the body of files.forEach in scan: one import is attempted; it registers
\* the file under the endpoint, or its failure is caught and logged
ImportFile(f, file, endpoint, bad) ==
    LET tried == [f EXCEPT !.imports = Append(@, [file |-> file, endpoint |-> endpoint])]
    IN  IF file \in bad
        THEN [tried EXCEPT !.errorLog = Append(@, [msg |-> "", err |-> Err(file)])]
        ELSE [tried EXCEPT !.registrations = Append(@, [file |-> file, endpoint |-> endpoint])]

\* files.forEach without the try/catch in its body: the first import that
\* throws ends the loop
RECURSIVE ImportFilesUncaught(_, _, _, _)
ImportFilesUncaught(f, files, endpoint, bad) ==
    IF files = <<>> THEN f
    ELSE IF Head(files) \in bad
    THEN [f EXCEPT !.imports = Append(@, [file |-> Head(files), endpoint |-> endpoint])]
    ELSE ImportFilesUncaught(ImportFile(f, Head(files), endpoint, bad), Tail(files),
                             endpoint, bad)

RECURSIVE ImportFiles(_, _, _, _)
ImportFiles(f, files, endpoint, bad) ==
    IF files = <<>> THEN f
    ELSE ImportFiles(ImportFile(f, Head(files), endpoint, bad), Tail(files), endpoint, bad)

\* path.replace(/\\/gi, "/") on the patterns the model declares
ReplaceBackslashes(path) ==
    CASE path = "v2\\*.ts" -> "v2/*.ts"
      [] OTHER -> path

scan(f, path, endpoint, bad) ==
    ImportFiles([f EXCEPT !.scans = Append(@, [path |-> path.s, endpoint |-> endpoint])],
                Glob(ReplaceBackslashes(path.s)), endpoint, bad)

\* scan(path) with the default argument endpoint = this._settings.endpoint
scanDefault(f, path, bad) == scan(f, path, Lookup(f.settings, "endpoint").s, bad)

mount(f, endpoint, path, bad) == scan(f, path, endpoint, bad)

(***************************************************************************)
(* autoload and its dispatch.                                              *)
(***************************************************************************)
\* case "mount": Object.keys(settingsService.mount).forEach(key => this.mount(key, value[key]))
RECURSIVE bindMount(_, _, _, _)
bindMount(f, keys, value, bad) ==
    IF keys = <<>> THEN f
    ELSE bindMount(mount(f, Head(keys), Lookup(value.entries, Head(keys)), bad),
                   Tail(keys), value, bad)

\* case "componentsScan": settingsService.componentsScan.forEach(dir => this.scan(dir))
RECURSIVE bindComponentsScan(_, _, _)
bindComponentsScan(f, dirs, bad) ==
    IF dirs = <<>> THEN f
    ELSE bindComponentsScan(scanDefault(f, Head(dirs), bad), Tail(dirs), bad)

\* case "httpPort" without the guard
bindHttpPortUnguarded(f, value) == createHttpServer(f, value)

\* case "httpPort": the guard on the existing listener
bindHttpPort(f, value) ==
    IF f.httpServer = 0 THEN createHttpServer(f, value) ELSE f

\* case "httpsPort" handing on the port alone
bindHttpsPortAlone(f, value) ==
    IF f.httpsServer = 0
    THEN createHttpsServer(f, Obj(<< <<"port", value>> >>))
    ELSE f

\* case "httpsPort": the guard, and the options merged with the port
bindHttpsPort(f, value) ==
    IF f.httpsServer = 0
    THEN createHttpsServer(f,
            ObjectAssign(OrElse(Lookup(getSettingsService(f), "httpsOptions"), Obj(<<>>)),
                         Obj(<< <<"port", value>> >>)))
    ELSE f

\* the switch without its case "httpsPort"
bindNoHttpsPort(f, property, value, bad) ==
    CASE property = "mount" ->
            bindMount(f, ObjectKeys(Lookup(f.settings, "mount")), value, bad)
      [] property = "componentsScan" ->
            bindComponentsScan(f, Lookup(f.settings, "componentsScan").items, bad)
      [] property = "httpPort" -> bindHttpPort(f, value)
      [] OTHER -> f

\* the switch of bind(property, value, map); a key with no case falls out of it
bind(f, property, value, bad) ==
    CASE property = "mount" ->
            bindMount(f, ObjectKeys(Lookup(getSettingsService(f), "mount")), value, bad)
      [] property = "componentsScan" ->
            bindComponentsScan(f, Lookup(getSettingsService(f), "componentsScan").items, bad)
      [] property = "httpPort" -> bindHttpPort(f, value)
      [] property = "httpsPort" -> bindHttpsPort(f, value)
      [] OTHER -> f

\* settingsService.forEach((value, key, map) => { if (value) bind(key, value, map) })
RECURSIVE forEachBind(_, _, _)
forEachBind(f, entries, bad) ==
    IF entries = <<>> THEN f
    ELSE forEachBind(
            IF ToBoolean(Head(entries)[2])
            THEN bind(f, Head(entries)[1], Head(entries)[2], bad)
            ELSE f,
            Tail(entries), bad)

autoload(f, object, bad) ==
    LET stored == [f EXCEPT !.settings = SettingsSet(@, object)]
    IN  forEachBind(stored, getSettingsService(stored), bad)

\* the constructor: the provider, the authentification callback, then autoload
\* of the settings metadata when the class carries some
constructor(f, metadata, bad) ==
    LET provided == [f EXCEPT !.settings =
                        MapSet(DefaultSettings, "authentification", Func("authentification"))]
    IN  IF ToBoolean(metadata) THEN autoload(provided, metadata, bad) ELSE provided

(***************************************************************************)
(* use and mountStaticDirectories.                                         *)
(***************************************************************************)
\* HandlerBuilder.from(arg).build(): the framework's handler around arg
HandlerBuilder(arg) == [type |-> "function", name |-> "built", from |-> arg]

\* args.map(...) without the test of this.injectorService
useArgUnconditional(inj, arg) ==
    IF arg.type = "function" THEN HandlerBuilder(arg) ELSE arg

\* args.map(...) of use: only with the injector set, only the functions
useArg(inj, arg) ==
    IF inj /\ arg.type = "function" THEN HandlerBuilder(arg) ELSE arg

\* use(...args): one expressApp.use call with the mapped arguments
use(stack, inj, args) ==
    Append(stack, [i \in 1..Len(args) |-> useArg(inj, args[i])])

\* set that puts a new application in the place of the one the object owns
setOnNewApplication(app, setting, val) ==
    [id |-> app.id + 1, settings |-> << <<setting, val>> >>, engines |-> <<>>]

\* set(setting, val): expressApp.set on the application the object owns
set(app, setting, val) == [app EXCEPT !.settings = MapSet(@, setting, val)]

\* engine(ext, fn): expressApp.engine on the application the object owns
engine(app, ext, fn) == [app EXCEPT !.engines = MapSet(@, ext, fn)]

\* the handler mountStaticDirectories registers for one directory
StaticHandler(dir) == [type |-> "function", name |-> "static", dir |-> dir]

\* the handler without its test of response.headersSent
StaticHandleUnguarded(handler, headersSent) ==
    [dir |-> handler.dir, headersSent |-> headersSent,
     serveStatic |-> <<handler.dir>>, next |-> 0]

\* the handler's body for one request: serveStatic(mountDirectories[key]) is
\* invoked unless response.headersSent, next() is called otherwise
StaticHandle(handler, headersSent) ==
    IF ~headersSent
    THEN [dir |-> handler.dir, headersSent |-> headersSent,
          serveStatic |-> <<handler.dir>>, next |-> 0]
    ELSE [dir |-> handler.dir, headersSent |-> headersSent,
          serveStatic |-> <<>>, next |-> 1]

RECURSIVE mountEach(_, _, _, _)
mountEach(stack, inj, keys, dirs) ==
    IF keys = <<>> THEN stack
    ELSE mountEach(use(stack, inj,
                       <<Str(Head(keys)), StaticHandler(Lookup(dirs.entries, Head(keys)))>>),
                   inj, Tail(keys), dirs)

mountStaticDirectories(stack, inj, dirs) ==
    IF ToBoolean(dirs) THEN mountEach(stack, inj, ObjectKeys(dirs), dirs) ELSE stack

(***************************************************************************)
(* The subclass and the declared settings the model draws from.            *)
(***************************************************************************)
HookNames ==
    {"$onInit", "importMiddlewares", "$onMountingMiddlewares", "$afterRoutesInit",
     "$onError", "$onReady", "$onServerInitError"}

Listeners == {"http", "https"}

\* the value a defined $onServerInitError returns
HookValue == Str("V")

\* an optional key of a settings object: absent, or present with one of the values
Opt(key, values) == {<<>>} \cup {<< <<key, v>> >> : v \in values}

MountValues ==
    {Null,
     Obj(<< <<"/rest", Str("ctrl/*.ts")>> >>),
     Obj(<< <<"/rest", Str("ctrl/*.ts")>>, <<"/v2", Str("v2\\*.ts")>> >>)}

ComponentsScanValues ==
    {Arr(<<Str("svc/*.ts")>>), Arr(<<Str("svc/*.ts"), Str("mw/*.ts")>>)}

HttpPortValues == {Bool(FALSE), Num(0), Num(8080)}

HttpsPortValues == {Num(0), Num(8443)}

HttpsOptionsValues ==
    {Obj(<< <<"key", Str("pem")>> >>),
     Obj(<< <<"port", Num(1)>>, <<"key", Str("pem")>> >>)}

ServeStaticValues == {Obj(<< <<"/", Str("public")>> >>)}

\* the settings metadata a class may carry: none, or an object of these keys;
\* httpsOptions is declared before or after httpsPort
AutoloadSettings ==
    {Undefined} \cup
    {Obj(m \o c \o h \o o \o s \o d) :
        m \in Opt("mount", MountValues),
        c \in Opt("componentsScan", ComponentsScanValues),
        h \in Opt("httpPort", HttpPortValues),
        o \in Opt("httpsOptions", HttpsOptionsValues),
        s \in Opt("httpsPort", HttpsPortValues),
        d \in Opt("debug", {Bool(TRUE)})} \cup
    {Obj(h \o s \o o) :
        h \in Opt("httpPort", HttpPortValues),
        s \in Opt("httpsPort", HttpsPortValues),
        o \in Opt("httpsOptions", HttpsOptionsValues)}

\* settings objects of a further autoload
ReloadSettings ==
    {Obj(h \o s) :
        h \in Opt("httpPort", {Num(9090)}),
        s \in Opt("httpsPort", {Num(9443)})}

\* the metadata of the classes whose start() is explored
BootSettings ==
    {Undefined} \cup
    {Obj(h \o s \o d) :
        h \in Opt("httpPort", {Num(8080)}),
        s \in Opt("httpsPort", {Num(8443)}),
        d \in Opt("serveStatic", ServeStaticValues)}

BadFileSets == {{}, {"ctrl/b.ts"}}

(***************************************************************************)
(* Initial state: the field initialisers of a new object, before the body  *)
(* of its constructor.                                                     *)
(***************************************************************************)
NoFailure == [step |-> "", err |-> Undefined]

\* Express(): the application instance of the field initialiser
Express == [id |-> 1, settings |-> <<>>, engines |-> <<>>]

Fresh ==
    /\ pc = "new"
    /\ ops = 0
    /\ lastOp = "none"
    /\ badFiles = {}
    /\ applied = Undefined
    /\ settings = <<>>
    /\ httpServer = 0
    /\ httpsServer = 0
    /\ servers = <<>>
    /\ scans = <<>>
    /\ imports = <<>>
    /\ registrations = <<>>
    /\ errorLog = <<>>
    /\ injectorService = FALSE
    /\ appStack = <<>>
    /\ expressApp = Express
    /\ useCalls = <<>>
    /\ handled = <<>>
    /\ log = <<>>
    /\ inflight = {}
    /\ awaiting = ""
    /\ listenCalled = {}
    /\ emitted = <<>>
    /\ failed = NoFailure
    /\ settledHooks = {}
    /\ promises = [l \in Listeners |-> [state |-> "none", reason |-> Undefined]]
    /\ caught = Undefined
    /\ initErrorCalls = <<>>
    /\ settled = "none"
    /\ result = Undefined

Init == Fresh /\ hooks \in SUBSET HookNames

\* a subclass that defines no hook
InitConfig == Fresh /\ hooks = {}

(***************************************************************************)
(* Construction and the configuration calls.                               *)
(***************************************************************************)
New(metadata, bad) ==
    /\ pc = "new"
    /\ pc' = "constructed"
    /\ lastOp' = "constructor"
    /\ badFiles' = bad
    /\ applied' = metadata
    /\ SetFields(constructor(Fields, metadata, bad))
    /\ UNCHANGED <<ops, hooks, surfaceVars, appVars, runVars>>

\* new Server() of a class whose start() is explored
Construct == \E metadata \in BootSettings : New(metadata, {})

\* new Server() of a class with any of the declared settings
ConstructAny == \E metadata \in AutoloadSettings, bad \in BadFileSets : New(metadata, bad)

Configure(op, f, object) ==
    /\ pc = "constructed"
    /\ ops < MaxOps
    /\ ops' = ops + 1
    /\ lastOp' = op
    /\ applied' = object
    /\ SetFields(f)
    /\ UNCHANGED <<pc, hooks, surfaceVars, badFiles, appVars, runVars>>

CreateHttpServer ==
    \E port \in {Num(9090)} : Configure("createHttpServer", createHttpServer(Fields, port), applied)

CreateHttpsServer ==
    \E options \in {Obj(<< <<"port", Num(9443)>> >>)} :
        Configure("createHttpsServer", createHttpsServer(Fields, options), applied)

\* autoload applied again to the constructed object
Autoload ==
    \E object \in ReloadSettings : Configure("autoload", autoload(Fields, object, badFiles), object)

NextConfig == ConstructAny \/ CreateHttpServer \/ CreateHttpsServer \/ Autoload

SpecAutoload == InitConfig /\ [][NextConfig]_vars

(***************************************************************************)
(* scan called on a constructed object, for any set of failing files.      *)
(***************************************************************************)
ScanPatterns == {Str("**/*.ts"), Str("ctrl/*.ts"), Str("v2\\*.ts"), Str("mw/*.ts")}

\* new Server() of a class without settings metadata
ConstructScanning == \E bad \in SUBSET Files : New(Undefined, bad)

\* scan(path, endpoint)
Scan ==
    \E path \in ScanPatterns, endpoint \in {"/api"} :
        Configure("scan", scan(Fields, path, endpoint, badFiles), Arr(<<path, Str(endpoint)>>))

\* scan(path)
ScanDefault ==
    \E path \in ScanPatterns :
        Configure("scan", scanDefault(Fields, path, badFiles), Arr(<<path>>))

NextScan == ConstructScanning \/ Scan \/ ScanDefault

SpecScan == InitConfig /\ [][NextScan]_vars

(***************************************************************************)
(* start(): the helpers of the pipeline.                                   *)
(***************************************************************************)
\* call without the rest arguments: the method is invoked with none
callNoArgs(key, elseFn, args) ==
    IF key \in hooks
    THEN [invoked |-> TRUE, args |-> <<>>, value |-> Undefined]
    ELSE [invoked |-> FALSE, args |-> <<>>, value |-> elseFn]

\* call without the `key in this` test: this[key](...args) whatever the subclass defines
callUnchecked(key, elseFn, args) ==
    [invoked |-> TRUE, args |-> args, value |-> Undefined]

\* const call = (key, elseFn, ...args) => key in this ? this[key](...args) : elseFn
\* the method is invoked with args, or elseFn itself is the value (it is not called)
call(key, elseFn, args) ==
    IF key \in hooks
    THEN [invoked |-> TRUE, args |-> args, value |-> Undefined]
    ELSE [invoked |-> FALSE, args |-> <<>>, value |-> elseFn]

\* importMiddlewares || $onMountingMiddlewares || new Function
MountingMiddlewaresHook ==
    IF "importMiddlewares" \in hooks THEN "importMiddlewares"
    ELSE IF "$onMountingMiddlewares" \in hooks THEN "$onMountingMiddlewares"
    ELSE ""

\* $afterRoutesInit || new Function
AfterRoutesInitHook == IF "$afterRoutesInit" \in hooks THEN "$afterRoutesInit" ELSE ""

\* initializeSettings without the `return` in front of $afterRoutesInit.call(...)
AwaitedButAfterRoutesInit(step) == step # "$afterRoutesInit"

\* whether the pipeline waits for the promise of a step before going on:
\* every hook call is awaited or returned into the promise chain
Awaited(step) == TRUE

\* the order of the steps in start() and initializeSettings
NextStep(step) ==
    CASE step = "$onInit" -> "InjectorService.load"
      [] step = "InjectorService.load" -> "$onMountingMiddlewares"
      [] step \in {"importMiddlewares", "$onMountingMiddlewares"} -> "ControllerService.load"
      [] step = "ControllerService.load" -> "printRoutes"
      [] step = "printRoutes" -> "mountStaticDirectories"
      [] step = "mountStaticDirectories" -> "$afterRoutesInit"
      [] step = "$afterRoutesInit" -> "errorHandlers"
      [] step = "errorHandlers" -> "startServers"
      [] step = "startServers" -> "$onReady"
      [] step = "$onReady" -> "return"

\* a pipeline whose steps swallow their own failure
ContinuationNoAbort(step, outcome) == NextStep(step)

\* where start() goes after a step: on to the next one when it returned or its
\* promise resolved, into the catch block when it threw or its promise rejected
Continuation(step, outcome) ==
    IF outcome = "throw" THEN "catch" ELSE NextStep(step)

\* Promise.race in the place of Promise.all: the first promise to settle decides
PromiseRace(ps) ==
    IF \E l \in Listeners : ps[l].state = "rejected" THEN "rejected"
    ELSE IF \A l \in Listeners : ps[l].state = "none" THEN "resolved"
    ELSE IF \E l \in Listeners : ps[l].state = "resolved" THEN "resolved"
    ELSE "pending"

\* Promise.allSettled-like waiting: nothing is decided before every promise settled
PromiseAllSettled(ps) ==
    IF \E l \in Listeners : ps[l].state = "pending" THEN "pending"
    ELSE IF \E l \in Listeners : ps[l].state = "rejected" THEN "rejected"
    ELSE "resolved"

\* Promise.all over an array nothing was pushed to
PromiseAllOfNone(ps) == "resolved"

\* Promise.all over the promises pushed: rejected with the first rejection,
\* resolved once every one resolved
PromiseAll(ps) ==
    IF \E l \in Listeners : ps[l].state = "rejected" THEN "rejected"
    ELSE IF \A l \in Listeners : ps[l].state \in {"none", "resolved"} THEN "resolved"
    ELSE "pending"

\* resolve() / reject(reason) of a promise: only a pending promise settles
Settle(p, state, reason) ==
    IF p.state = "pending" THEN [state |-> state, reason |-> reason] ELSE p

\* the Error a listener passes to its "error" handlers, its n-th event
ListenerErr(l, n) == [type |-> "error", at |-> l, nth |-> n]

\* the end of start() without a failure: the async function returns nothing
Return ==
    /\ pc' = "done"
    /\ settled' = "resolved"
    /\ result' = Undefined
    /\ UNCHANGED <<caught, initErrorCalls>>

\* start() without its try/catch: the failure rejects the returned promise
CatchRethrow(err, fl) ==
    /\ caught' = err
    /\ settled' = "rejected"
    /\ result' = err
    /\ inflight' = fl
    /\ awaiting' = ""
    /\ pc' = "done"
    /\ UNCHANGED initErrorCalls

\* a catch block that hands the error to the hook when there is one and
\* throws it again when there is none
CatchUnhandled(err, fl) ==
    LET r == call("$onServerInitError", Func("elseFn"), <<err>>)
    IN  /\ caught' = err
        /\ IF r.invoked
           THEN /\ initErrorCalls' = Append(initErrorCalls, r.args)
                /\ inflight' = fl \cup {"$onServerInitError"}
                /\ awaiting' = "$onServerInitError"
                /\ pc' = "await"
                /\ UNCHANGED <<settled, result>>
           ELSE /\ settled' = "rejected"
                /\ result' = err
                /\ inflight' = fl
                /\ awaiting' = ""
                /\ pc' = "done"
                /\ UNCHANGED initErrorCalls

\* catch (err) { return call("$onServerInitError", () => { $log.error(...) }, err) }
\* fl: the steps still in flight
Catch(err, fl) ==
    LET r == call("$onServerInitError", Func("elseFn"), <<err>>)
    IN  /\ caught' = err
        /\ IF r.invoked
           THEN /\ initErrorCalls' = Append(initErrorCalls, r.args)
                /\ inflight' = fl \cup {"$onServerInitError"}
                /\ awaiting' = "$onServerInitError"
                /\ pc' = "await"
                /\ UNCHANGED <<settled, result>>
           ELSE /\ settled' = "resolved"
                /\ result' = r.value
                /\ inflight' = fl
                /\ awaiting' = ""
                /\ pc' = "done"
                /\ UNCHANGED initErrorCalls

\* start() moves on from a step that has completed with the outcome
\* (err: what it threw or rejected with)
Proceed(step, outcome, err, fl) ==
    LET to == Continuation(step, outcome)
    IN  /\ failed' = IF outcome = "throw" /\ failed = NoFailure
                     THEN [step |-> step, err |-> err] ELSE failed
        /\ IF to = "catch" THEN Catch(err, fl)
           ELSE IF to = "return" THEN Return /\ inflight' = fl /\ awaiting' = ""
           ELSE /\ pc' = to
                /\ inflight' = fl
                /\ awaiting' = ""
                /\ UNCHANGED <<caught, initErrorCalls, settled, result>>

\* a synchronous step of the pipeline: it begins, and returns or throws
SyncStep(step, outcome) ==
    /\ pc = step
    /\ log' = Append(log, step)
    /\ Proceed(step, outcome, Err(step), inflight)

\* a hook is called: it runs until its promise settles; start() is suspended
\* on it when the call is awaited
BeginHook(hook, next) ==
    /\ log' = Append(log, hook)
    /\ inflight' = inflight \cup {hook}
    /\ failed' = failed
    /\ IF Awaited(hook)
       THEN /\ pc' = "await"
            /\ awaiting' = hook
            /\ UNCHANGED <<caught, initErrorCalls, settled, result>>
       ELSE IF next = "return"
       THEN Return /\ awaiting' = ""
       ELSE /\ pc' = next
            /\ awaiting' = ""
            /\ UNCHANGED <<caught, initErrorCalls, settled, result>>

Outcomes == {"return", "throw"}

(***************************************************************************)
(* start(): one action per step.                                           *)
(***************************************************************************)
\* start() is called: this.getSettingsService(), then the try block
Start ==
    /\ pc = "constructed"
    /\ pc' = "$onInit"
    /\ lastOp' = "start"
    /\ settled' = "pending"
    /\ UNCHANGED <<ops, hooks, surfaceVars, badFiles, applied, cfgVars, appVars, log, inflight, awaiting,
                   listenCalled, emitted, promises, failed, settledHooks, caught,
                   initErrorCalls, result>>

\* await call("$onInit")
CallOnInit ==
    /\ pc = "$onInit"
    /\ IF call("$onInit", Func("noop"), <<>>).invoked
       THEN BeginHook("$onInit", NextStep("$onInit"))
       ELSE log' = log /\ Proceed("$onInit", "return", Undefined, inflight)
    /\ UNCHANGED <<ops, lastOp, hooks, surfaceVars, badFiles, applied, cfgVars, appVars,
                   listenCalled, emitted, promises, settledHooks>>

\* the promise of a pipeline hook settles: the hook returned or its promise
\* resolved, or it threw or its promise rejected
HookSettles ==
    \E hook \in inflight \ {"startServers", "$onServerInitError"}, outcome \in Outcomes :
        /\ settledHooks' = settledHooks \cup {<<hook, outcome>>}
        /\ IF awaiting = hook
           THEN Proceed(hook, outcome, Err(hook), inflight \ {hook})
           ELSE /\ inflight' = inflight \ {hook}
                /\ UNCHANGED <<pc, awaiting, failed, caught, initErrorCalls, settled, result>>
        /\ UNCHANGED <<ops, lastOp, hooks, surfaceVars, badFiles, applied, cfgVars, appVars, log,
                       listenCalled, emitted, promises>>

\* initializeSettings leaving _injectorService unset until its chain is through
InjectorLoadUnresolved ==
    \E outcome \in Outcomes :
        /\ SyncStep("InjectorService.load", outcome)
        /\ injectorService' = FALSE
        /\ UNCHANGED <<ops, lastOp, hooks, surfaceVars, badFiles, applied, cfgVars, appStack,
                       listenCalled, emitted, promises, settledHooks>>

\* initializeSettings: InjectorService.load() and the injector instance
InjectorLoad ==
    \E outcome \in Outcomes :
        /\ SyncStep("InjectorService.load", outcome)
        /\ injectorService' = (outcome = "return")
        /\ UNCHANGED <<ops, lastOp, hooks, surfaceVars, badFiles, applied, cfgVars, appStack,
                       listenCalled, emitted, promises, settledHooks>>

\* .then(() => $onMountingMiddlewares.call(this, this.expressApp))
CallMountingMiddlewares ==
    /\ pc = "$onMountingMiddlewares"
    /\ IF MountingMiddlewaresHook # ""
       THEN BeginHook(MountingMiddlewaresHook, NextStep(MountingMiddlewaresHook))
       ELSE log' = log /\ Proceed("$onMountingMiddlewares", "return", Undefined, inflight)
    /\ UNCHANGED <<ops, lastOp, hooks, surfaceVars, badFiles, applied, cfgVars, appVars,
                   listenCalled, emitted, promises, settledHooks>>

\* controllerService.load()
ControllerLoad ==
    \E outcome \in Outcomes :
        /\ SyncStep("ControllerService.load", outcome)
        /\ UNCHANGED <<ops, lastOp, hooks, surfaceVars, badFiles, applied, cfgVars, appVars,
                       listenCalled, emitted, promises, settledHooks>>

\* routeService.printRoutes($log)
PrintRoutes ==
    \E outcome \in Outcomes :
        /\ SyncStep("printRoutes", outcome)
        /\ UNCHANGED <<ops, lastOp, hooks, surfaceVars, badFiles, applied, cfgVars, appVars,
                       listenCalled, emitted, promises, settledHooks>>

\* this.mountStaticDirectories(settingsService.serveStatic)
MountStatic ==
    \E outcome \in Outcomes :
        /\ SyncStep("mountStaticDirectories", outcome)
        /\ appStack' = IF outcome = "return"
                       THEN mountStaticDirectories(appStack, injectorService,
                                Lookup(getSettingsService(Fields), "serveStatic"))
                       ELSE appStack
        /\ UNCHANGED <<ops, lastOp, hooks, surfaceVars, badFiles, applied, cfgVars, injectorService,
                       listenCalled, emitted, promises, settledHooks>>

\* return $afterRoutesInit.call(this, this.expressApp)
CallAfterRoutesInit ==
    /\ pc = "$afterRoutesInit"
    /\ IF AfterRoutesInitHook # ""
       THEN BeginHook(AfterRoutesInitHook, NextStep(AfterRoutesInitHook))
       ELSE log' = log /\ Proceed("$afterRoutesInit", "return", Undefined, inflight)
    /\ UNCHANGED <<ops, lastOp, hooks, surfaceVars, badFiles, applied, cfgVars, appVars,
                   listenCalled, emitted, promises, settledHooks>>

\* the two registrations in the other order
errorHandlersGlobalFirst(stack, inj) ==
    LET global == use(stack, inj, <<Func("GlobalErrorHandlerMiddleware")>>)
    IN  IF "$onError" \in hooks THEN use(global, inj, <<Func("$onError")>>) ELSE global

\* if (fnError) this.use(fnError.bind(this)); this.use(GlobalErrorHandlerMiddleware)
errorHandlers(stack, inj) ==
    LET own == IF "$onError" \in hooks THEN use(stack, inj, <<Func("$onError")>>) ELSE stack
    IN  use(own, inj, <<Func("GlobalErrorHandlerMiddleware")>>)

ErrorHandlers ==
    \E outcome \in Outcomes :
        /\ SyncStep("errorHandlers", outcome)
        /\ appStack' = IF outcome = "return"
                       THEN errorHandlers(appStack, injectorService)
                       ELSE appStack
        /\ UNCHANGED <<ops, lastOp, hooks, surfaceVars, badFiles, applied, cfgVars, injectorService,
                       listenCalled, emitted, promises, settledHooks>>

(***************************************************************************)
(* startServers and the listeners' events.                                 *)
(***************************************************************************)
\* the listeners the truthiness tests of startServers find
Existing ==
    {l \in Listeners : (IF l = "http" THEN httpServer ELSE httpsServer) # 0}

Pending == [state |-> "pending", reason |-> Undefined]

\* the events one listener has emitted
EventsOf(l) == SelectSeq(emitted, LAMBDA e : e.listener = l)

\* startServers runs to its return: listen() on every listener that exists, one
\* promise pushed for each, Promise.all over them
StartServersReturns ==
    /\ pc = "startServers"
    /\ log' = Append(log, "startServers")
    /\ listenCalled' = Existing
    /\ promises' = [l \in Listeners |-> IF l \in Existing THEN Pending ELSE promises[l]]
    /\ IF PromiseAll(promises') = "resolved"
       THEN Proceed("startServers", "return", Undefined, inflight)
       ELSE /\ pc' = "await"
            /\ awaiting' = "startServers"
            /\ inflight' = inflight \cup {"startServers"}
            /\ UNCHANGED <<failed, caught, initErrorCalls, settled, result>>
    /\ UNCHANGED <<ops, lastOp, hooks, surfaceVars, badFiles, applied, cfgVars, appVars, emitted, settledHooks>>

\* listen() of one listener throws: the listeners before it are already bound
\* and have their promise, Promise.all is never reached
StartServersThrows ==
    \E at \in Existing :
        LET before == IF at = "https" THEN Existing \ {"https"} ELSE {}
        IN  /\ pc = "startServers"
            /\ log' = Append(log, "startServers")
            /\ listenCalled' = before
            /\ promises' = [l \in Listeners |-> IF l \in before THEN Pending ELSE promises[l]]
            /\ Proceed("startServers", "throw", Err("startServers"), inflight)
            /\ UNCHANGED <<ops, lastOp, hooks, surfaceVars, badFiles, applied, cfgVars, appVars, emitted,
                           settledHooks>>

\* a bound listener emits "listening" (once, as its first event) or "error";
\* the handlers settle its promise, and Promise.all settles with it
ListenerEmits ==
    \E l \in listenCalled, event \in {"listening", "error"} :
        /\ Len(EventsOf(l)) < MaxEvents
        /\ event = "listening" => EventsOf(l) = <<>>
        /\ emitted' = Append(emitted, [listener |-> l, event |-> event])
        /\ promises' = [promises EXCEPT ![l] =
                IF event = "listening"
                THEN Settle(@, "resolved", Undefined)
                ELSE Settle(@, "rejected", ListenerErr(l, Len(EventsOf(l)) + 1))]
        /\ IF awaiting = "startServers" /\ PromiseAll(promises') # "pending"
           THEN Proceed("startServers",
                        IF PromiseAll(promises') = "rejected" THEN "throw" ELSE "return",
                        promises'[l].reason, inflight \ {"startServers"})
           ELSE UNCHANGED <<pc, inflight, awaiting, failed, caught, initErrorCalls,
                            settled, result>>
        /\ UNCHANGED <<ops, lastOp, hooks, surfaceVars, badFiles, applied, cfgVars, appVars, log, listenCalled,
                       settledHooks>>

\* await call("$onReady")
CallOnReady ==
    /\ pc = "$onReady"
    /\ IF call("$onReady", Func("noop"), <<>>).invoked
       THEN BeginHook("$onReady", NextStep("$onReady"))
       ELSE log' = log /\ Proceed("$onReady", "return", Undefined, inflight)
    /\ UNCHANGED <<ops, lastOp, hooks, surfaceVars, badFiles, applied, cfgVars, appVars,
                   listenCalled, emitted, promises, settledHooks>>

\* a failure path that closes the listeners and drops them once the hook is through
InitErrorSettlesClosing ==
    \E outcome \in Outcomes :
        /\ pc = "await"
        /\ awaiting = "$onServerInitError"
        /\ pc' = "done"
        /\ awaiting' = ""
        /\ inflight' = inflight \ {"$onServerInitError"}
        /\ settledHooks' = settledHooks \cup {<<"$onServerInitError", outcome>>}
        /\ settled' = IF outcome = "return" THEN "resolved" ELSE "rejected"
        /\ result' = IF outcome = "return" THEN HookValue ELSE Err("$onServerInitError")
        /\ listenCalled' = {}
        /\ httpServer' = 0
        /\ httpsServer' = 0
        /\ UNCHANGED <<ops, lastOp, hooks, surfaceVars, badFiles, applied, settings, servers,
                       scans, imports, registrations, errorLog, appVars, log,
                       emitted, promises, failed, caught, initErrorCalls>>

\* the promise of $onServerInitError settles, and start()'s promise with it
InitErrorSettles ==
    \E outcome \in Outcomes :
        /\ pc = "await"
        /\ awaiting = "$onServerInitError"
        /\ pc' = "done"
        /\ awaiting' = ""
        /\ inflight' = inflight \ {"$onServerInitError"}
        /\ settledHooks' = settledHooks \cup {<<"$onServerInitError", outcome>>}
        /\ settled' = IF outcome = "return" THEN "resolved" ELSE "rejected"
        /\ result' = IF outcome = "return" THEN HookValue ELSE Err("$onServerInitError")
        /\ UNCHANGED <<ops, lastOp, hooks, surfaceVars, badFiles, applied, cfgVars, appVars, log,
                       listenCalled, emitted, promises, failed, caught, initErrorCalls>>

Next ==
    \/ Construct
    \/ Start
    \/ CallOnInit
    \/ HookSettles
    \/ InjectorLoad
    \/ CallMountingMiddlewares
    \/ ControllerLoad
    \/ PrintRoutes
    \/ MountStatic
    \/ CallAfterRoutesInit
    \/ ErrorHandlers
    \/ StartServersReturns
    \/ StartServersThrows
    \/ ListenerEmits
    \/ CallOnReady
    \/ InitErrorSettles

Spec == Init /\ [][Next]_vars

\* the steps start() takes by itself once it is called: the event loop runs
\* each continuation that is ready
PipelineStep ==
    \/ CallOnInit
    \/ InjectorLoad
    \/ CallMountingMiddlewares
    \/ ControllerLoad
    \/ PrintRoutes
    \/ MountStatic
    \/ CallAfterRoutesInit
    \/ ErrorHandlers
    \/ StartServersReturns
    \/ StartServersThrows
    \/ CallOnReady

\* start() under the scheduling of the event loop
SpecLive == Init /\ [][Next]_vars /\ WF_vars(PipelineStep)

\* the first event of a listener that listen() was called on
FirstEvent(l) ==
    /\ EventsOf(l) = <<>>
    /\ ListenerEmits
    /\ emitted'[Len(emitted')].listener = l

(***************************************************************************)
(* The public surface, called by the subclass before start() and from      *)
(* inside its hooks, and the requests that reach the static handlers.      *)
(***************************************************************************)
\* the hooks of the subclass that are running
Running == inflight \ {"startServers"}

\* the hook a call is made from, "" for a call made before start()
Current == IF Running = {} THEN "" ELSE CHOOSE hook \in Running : TRUE

\* the argument lists the subclass passes to use()
UseArgs ==
    {<<Func("mw")>>,
     <<Str("/api"), Obj(<< <<"router", Bool(TRUE)>> >>), Func("mw"), Func("mw2")>>}

\* the settings of the classes that serve static directories
ServingSettings ==
    {Undefined,
     Obj(<< <<"httpPort", Num(8080)>>,
            <<"serveStatic", Obj(<< <<"/", Str("public")>>, <<"/docs", Str("docs")>> >>)>> >>)}

ConstructServing == \E metadata \in ServingSettings : New(metadata, {})

\* a method of the public surface is called on the constructed object, before
\* start() or from inside a running hook
Surface(op, argument) ==
    /\ pc = "constructed" \/ Running # {}
    /\ ops < MaxOps
    /\ ops' = ops + 1
    /\ lastOp' = op
    /\ applied' = argument
    /\ UNCHANGED <<pc, hooks, badFiles, runVars>>

\* this.use(...args)
Use ==
    \E args \in UseArgs :
        /\ Surface("use", Arr(args))
        /\ appStack' = use(appStack, injectorService, args)
        /\ useCalls' = Append(useCalls, [args |-> args, injector |-> injectorService,
                                         during |-> Current, at |-> Len(appStack) + 1])
        /\ UNCHANGED <<cfgVars, injectorService, expressApp, handled>>

\* this.set(setting, val)
Set ==
    \E val \in {Str("pug")} :
        /\ Surface("set", Arr(<<Str("view engine"), val>>))
        /\ expressApp' = set(expressApp, "view engine", val)
        /\ UNCHANGED <<cfgVars, appVars, useCalls, handled>>

\* this.engine(ext, fn)
Engine ==
    \E fn \in {Func("render")} :
        /\ Surface("engine", Arr(<<Str("html"), fn>>))
        /\ expressApp' = engine(expressApp, "html", fn)
        /\ UNCHANGED <<cfgVars, appVars, useCalls, handled>>

\* this.mount(endpoint, path)
Mount ==
    \E endpoint \in {"/v2"}, path \in {Str("v2\\*.ts")} :
        /\ Surface("mount", Arr(<<Str(endpoint), path>>))
        /\ SetFields(mount(Fields, endpoint, path, badFiles))
        /\ UNCHANGED <<appVars, surfaceVars>>

\* this.createHttpServer(port)
SurfaceCreateHttpServer ==
    \E port \in {Num(9090)} :
        /\ Surface("createHttpServer", port)
        /\ SetFields(createHttpServer(Fields, port))
        /\ UNCHANGED <<appVars, surfaceVars>>

\* this.createHttpsServer(options)
SurfaceCreateHttpsServer ==
    \E options \in {Obj(<< <<"port", Num(9443)>> >>)} :
        /\ Surface("createHttpsServer", options)
        /\ SetFields(createHttpsServer(Fields, options))
        /\ UNCHANGED <<appVars, surfaceVars>>

\* the positions of the application's stack that hold a static handler
StaticEntries ==
    {i \in 1..Len(appStack) :
        /\ Len(appStack[i]) = 2
        /\ appStack[i][2].type = "function"
        /\ (IF appStack[i][2].name = "built" THEN appStack[i][2].from ELSE appStack[i][2]).name
                = "static"}

\* a request comes in through a listener that is up and reaches one of the
\* static handlers, its response sent already or not
Request ==
    \E i \in StaticEntries, headersSent \in BOOLEAN :
        LET registered == appStack[i][2]
            handler == IF registered.name = "built" THEN registered.from ELSE registered
        IN  /\ \E n \in 1..Len(emitted) : emitted[n].event = "listening"
            /\ ops < MaxOps
            /\ ops' = ops + 1
            /\ lastOp' = "request"
            /\ handled' = Append(handled, StaticHandle(handler, headersSent))
            /\ UNCHANGED <<pc, hooks, badFiles, applied, cfgVars, appVars, expressApp,
                           useCalls, runVars>>

NextSurface ==
    \/ ConstructServing
    \/ Start
    \/ CallOnInit
    \/ HookSettles
    \/ InjectorLoad
    \/ CallMountingMiddlewares
    \/ ControllerLoad
    \/ PrintRoutes
    \/ MountStatic
    \/ CallAfterRoutesInit
    \/ ErrorHandlers
    \/ StartServersReturns
    \/ StartServersThrows
    \/ ListenerEmits
    \/ CallOnReady
    \/ InitErrorSettles
    \/ Use
    \/ Set
    \/ Engine
    \/ Mount
    \/ SurfaceCreateHttpServer
    \/ SurfaceCreateHttpsServer
    \/ Request

\* the subclasses whose surface calls are explored: every hook of the pipeline
\* under its own name with $onError, $onServerInitError alone, and the
\* middleware hook under its alias alone
SurfaceClasses ==
    {HookNames \ {"importMiddlewares", "$onServerInitError"},
     {"$onServerInitError"},
     {"importMiddlewares"}}

InitSurface == Fresh /\ hooks \in SurfaceClasses

SpecSurface == InitSurface /\ [][NextSurface]_vars

(***************************************************************************)
(* Properties of the configuration.                                        *)
(***************************************************************************)
\* the listeners of one kind that have been created
Created(kind) == {i \in 1..Len(servers) : servers[i].kind = kind}

\* the step is a further autoload / a direct call of a factory
IsCall(op) == lastOp' = op /\ ops' = ops + 1

HttpKept ==
    /\ httpServer' = httpServer
    /\ Created("http")' = Created("http")

HttpsKept ==
    /\ httpsServer' = httpsServer
    /\ Created("https")' = Created("https")

\* C9 as stated: once a listener exists, no step creates a second listener of
\* its kind, replaces the listener or changes its configured port.
C9_FirstWriterWins ==
    [][/\ httpServer # 0 =>
            HttpKept /\ Lookup(settings, "httpPort")' = Lookup(settings, "httpPort")
       /\ httpsServer # 0 =>
            HttpsKept /\ Lookup(settings, "httpsPort")' = Lookup(settings, "httpsPort")]_vars

\* C9, amended: first-writer-wins holds for autoload only. Once an HTTP
\* listener exists, a further autoload creates no second HTTP listener and
\* leaves the listener field unchanged, also when its settings declare httpPort
\* (likewise HTTPS with httpsPort); createHttpServer and createHttpsServer are
\* not guarded: each call creates a new listener, which replaces the existing
\* one, and stores the port it is given.
C9_AutoloadKeepsListener ==
    [][/\ (IsCall("autoload") /\ httpServer # 0) => HttpKept
       /\ (IsCall("autoload") /\ httpsServer # 0) => HttpsKept
       /\ IsCall("createHttpServer") =>
            /\ httpServer' = Len(servers) + 1
            /\ Created("http")' = Created("http") \cup {httpServer'}
            /\ HttpsKept
       /\ IsCall("createHttpsServer") =>
            /\ httpsServer' = Len(servers) + 1
            /\ Created("https")' = Created("https") \cup {httpsServer'}
            /\ HttpKept]_vars

\* a further autoload declaring both ports has met the listeners construction made
C9_Witness ==
    /\ lastOp = "autoload"
    /\ ops = 1
    /\ applied = Obj(<< <<"httpPort", Num(9090)>>, <<"httpsPort", Num(9443)>> >>)
    /\ Created("http") = {httpServer}
    /\ Created("https") = {httpsServer}
    /\ Len(servers) = 2

\* an empty value: undefined, null, false, 0 or ""
Empty(v) ==
    \/ v.type \in {"undefined", "null"}
    \/ v = Bool(FALSE)
    \/ v = Num(0)
    \/ v = Str("")

\* the scans one key of a settings object stands for
EntryScans(key, value) ==
    IF Empty(value) THEN <<>>
    ELSE CASE key = "mount" ->
                [i \in 1..Len(value.entries) |->
                    [path |-> value.entries[i][2].s, endpoint |-> value.entries[i][1]]]
           [] key = "componentsScan" ->
                [i \in 1..Len(value.items) |->
                    [path |-> value.items[i].s, endpoint |-> "/rest"]]
           [] OTHER -> <<>>

RECURSIVE ExpectedScans(_)
ExpectedScans(entries) ==
    IF entries = <<>> THEN <<>>
    ELSE EntryScans(Head(entries)[1], Head(entries)[2]) \o ExpectedScans(Tail(entries))

\* one listener of the kind when the key has a non-empty value, none otherwise
ExpectedListeners(key) ==
    IF applied.type = "object" /\ ~Empty(Lookup(applied.entries, key)) THEN 1 ELSE 0

\* C10: the settings object applied at construction has produced one scan per
\* declared mount endpoint, at that endpoint, one scan under the default
\* endpoint per componentsScan pattern, one HTTP listener for httpPort and one
\* HTTPS listener for httpsPort, each only for a non-empty value, and no other
\* scan and no other listener: keys without a dispatch case produce none.
C10_AutoloadEffects ==
    (pc = "constructed" /\ lastOp = "constructor") =>
        /\ scans = (IF applied.type = "object" THEN ExpectedScans(applied.entries) ELSE <<>>)
        /\ Cardinality(Created("http")) = ExpectedListeners("httpPort")
        /\ Cardinality(Created("https")) = ExpectedListeners("httpsPort")
        /\ (httpServer # 0) = (Created("http") # {})
        /\ (httpsServer # 0) = (Created("https") # {})

C10_Witness ==
    /\ pc = "constructed"
    /\ lastOp = "constructor"
    /\ Len(scans) = 4
    /\ httpServer # 0
    /\ httpsServer # 0
    /\ HasKey(applied.entries, "debug")
    /\ HasKey(applied.entries, "httpsOptions")

\* the records scan leaves for a sequence of files under an endpoint
Under(files, endpoint) == [i \in 1..Len(files) |-> [file |-> files[i], endpoint |-> endpoint]]

\* C11: one scan over a pattern matching N files attempts the import of each
\* of the N files, in the order glob gives them; every file whose import
\* throws gets its own error log entry and no registration, every other file is
\* registered under the endpoint, whatever comes before it; with exactly one
\* failing file the scan adds N-1 registrations; and scan returns.
C11_ScanToleratesFailures ==
    [][IsCall("scan") =>
        LET files == Glob(ReplaceBackslashes(applied'.items[1].s))
            endpoint == IF Len(applied'.items) = 2 THEN applied'.items[2].s
                        ELSE Lookup(settings, "endpoint").s
            loaded == SelectSeq(files, LAMBDA file : file \notin badFiles)
            thrown == SelectSeq(files, LAMBDA file : file \in badFiles)
        IN  /\ imports' = imports \o Under(files, endpoint)
            /\ registrations' = registrations \o Under(loaded, endpoint)
            /\ errorLog' = errorLog \o [i \in 1..Len(thrown) |-> [msg |-> "", err |-> Err(thrown[i])]]
            /\ Len(thrown) = 1 => Len(registrations') = Len(registrations) + Len(files) - 1
            /\ pc' = "constructed"]_vars

\* four files scanned, the second one failing
C11_Witness ==
    /\ lastOp = "scan"
    /\ badFiles = {"ctrl/b.ts"}
    /\ imports = Under(<<"ctrl/a.ts", "ctrl/b.ts", "svc/d.ts", "v2/c.ts">>, "/api")
    /\ registrations = Under(<<"ctrl/a.ts", "svc/d.ts", "v2/c.ts">>, "/api")
    /\ errorLog = <<[msg |-> "", err |-> Err("ctrl/b.ts")]>>

(***************************************************************************)
(* Properties of start().                                                  *)
(***************************************************************************)
Range(s) == {s[i] : i \in 1..Len(s)}

IsPrefix(a, b) == Len(a) <= Len(b) /\ \A i \in 1..Len(a) : a[i] = b[i]

\* the steps of a run in the order the specification gives them; the
\* middleware-import hook is importMiddlewares when the subclass defines that
\* alias, $onMountingMiddlewares otherwise
Pipeline ==
    <<"$onInit", "InjectorService.load", "importMiddlewares", "$onMountingMiddlewares",
      "ControllerService.load", "printRoutes", "mountStaticDirectories",
      "$afterRoutesInit", "errorHandlers", "startServers", "$onReady">>

Rank(step) == CHOOSE i \in 1..Len(Pipeline) : Pipeline[i] = step

OptionalHook(step) ==
    step \in {"$onInit", "importMiddlewares", "$onMountingMiddlewares", "$afterRoutesInit",
              "$onReady"}

\* a step that a subclass with these hooks goes through
Runs(step) ==
    IF step = "$onMountingMiddlewares"
    THEN step \in hooks /\ "importMiddlewares" \notin hooks
    ELSE OptionalHook(step) => step \in hooks

ExpectedSteps == SelectSeq(Pipeline, Runs)

Failed == failed # NoFailure

ErrorHookThrew == <<"$onServerInitError", "throw">> \in settledHooks

ErrorHookReturned == <<"$onServerInitError", "return">> \in settledHooks

\* C1 as stated: the promise start() returned is never rejected.
C1_NeverRejects == settled # "rejected"

\* C1, amended: after a failure at any stage, start() has resolved once it is
\* settled, both without $onServerInitError and with one that returns; the one
\* exception is a defined $onServerInitError that itself throws or rejects.
C1_ResolvesUnlessErrorHookThrows ==
    (pc = "done" /\ Failed /\ ~ErrorHookThrew) => settled = "resolved"

C1_Witness ==
    /\ pc = "done"
    /\ failed.step = "startServers"
    /\ "$onServerInitError" \in hooks
    /\ ErrorHookReturned
    /\ settled = "resolved"

\* C2: with $onServerInitError defined, a failing stage makes start() invoke it
\* exactly once, with the error of that stage as its only argument, and when it
\* returns V start() resolves with V; without a failure it is not invoked.
C2_ErrorHookContract ==
    "$onServerInitError" \in hooks =>
        /\ Failed => initErrorCalls = << <<failed.err>> >>
        /\ ~Failed => initErrorCalls = <<>>
        /\ ErrorHookReturned => (pc = "done" /\ settled = "resolved" /\ result = HookValue)

C2_Witness ==
    /\ failed = [step |-> "$onMountingMiddlewares", err |-> Err("$onMountingMiddlewares")]
    /\ initErrorCalls = << <<Err("$onMountingMiddlewares")>> >>
    /\ settled = "resolved"
    /\ result = HookValue

\* C3 as stated: without $onServerInitError, a failing stage makes start()
\* resolve with undefined, and by then an error log entry carries the failure.
C3_ResolvesUndefinedAndLogs ==
    (pc = "done" /\ Failed /\ "$onServerInitError" \notin hooks) =>
        /\ settled = "resolved"
        /\ result = Undefined
        /\ \E i \in 1..Len(errorLog) : errorLog[i].err = failed.err

\* C4: the steps of every run begin in the order $onInit, DI load,
\* $onMountingMiddlewares, ControllerService.load, route print, static mounting,
\* $afterRoutesInit, error handlers, listener startup, $onReady, none left out
\* but the hooks the subclass does not define, and a step whose promise has not
\* settled is the last step begun: no step begins while another is under way.
C4_Sequential ==
    /\ IsPrefix(log, ExpectedSteps)
    /\ \A step \in inflight \ {"$onServerInitError"} :
            log # <<>> /\ log[Len(log)] = step

C4_Witness ==
    /\ pc = "done"
    /\ ~Failed
    /\ {"$onInit", "$onMountingMiddlewares", "$afterRoutesInit", "$onReady"} \subseteq hooks
    /\ Len(log) = Len(Pipeline) - 1
    /\ Existing = Listeners

HasEmitted(l, event) ==
    \E i \in 1..Len(emitted) : emitted[i] = [listener |-> l, event |-> event]

\* startServers has settled successfully
StartedServers ==
    \/ pc = "$onReady"
    \/ "$onReady" \in Range(log)
    \/ (pc = "done" /\ ~Failed)

\* C5: startServers has settled successfully, and $onReady is invoked, only in
\* states where every listener that exists has emitted "listening"; with both
\* listeners, the "listening" of one alone does not let the run reach $onReady.
C5_AllListening ==
    StartedServers => \A l \in Existing : HasEmitted(l, "listening")

C5_Witness ==
    /\ Existing = Listeners
    /\ "$onReady" \in Range(log)
    /\ emitted = <<[listener |-> "https", event |-> "listening"],
                   [listener |-> "http", event |-> "listening"]>>

\* the error value of the i-th event emitted
ErrorAt(i) ==
    ListenerErr(emitted[i].listener,
                Cardinality({j \in 1..i : emitted[j].listener = emitted[i].listener}))

Least(S) == CHOOSE i \in S : \A j \in S : i <= j

\* startServers failed with the error of the i-th event, start() took its
\* failure path with that error, and $onReady is not invoked
FailsWith(i) ==
    /\ failed = [step |-> "startServers", err |-> ErrorAt(i)]
    /\ caught = ErrorAt(i)
    /\ pc # "$onReady"
    /\ "$onReady" \notin Range(log)

\* error events emitted before every existing listener had emitted "listening"
EarlyErrors ==
    {i \in 1..Len(emitted) :
        /\ emitted[i].event = "error"
        /\ \E l \in Existing : \A j \in 1..(i - 1) :
                emitted[j] # [listener |-> l, event |-> "listening"]}

\* error events of a listener that had not itself emitted "listening"
StartupErrors ==
    {i \in 1..Len(emitted) :
        /\ emitted[i].event = "error"
        /\ \A j \in 1..(i - 1) :
                emitted[j] # [listener |-> emitted[i].listener, event |-> "listening"]}

\* startServers got as far as Promise.all: listen() was called on every listener
AllBound == listenCalled = Existing

\* C6 as stated: an error event of either listener before both have emitted
\* "listening" makes startServers fail with the earliest such error, which
\* start() routes to its failure path, and $onReady is never invoked.
C6_AnyEarlyErrorFails ==
    (AllBound /\ EarlyErrors # {}) => FailsWith(Least(EarlyErrors))

\* C6, amended: an error event of a listener that has not itself emitted
\* "listening" makes startServers fail with the earliest such error, which
\* start() routes to its failure path, and $onReady is never invoked, whatever
\* the other listener emits before or after; an error event of a listener that
\* has already emitted "listening" is ignored.
C6_StartupErrorFails ==
    (AllBound /\ StartupErrors # {}) => FailsWith(Least(StartupErrors))

C6_Witness ==
    /\ emitted = <<[listener |-> "http", event |-> "listening"],
                   [listener |-> "http", event |-> "error"],
                   [listener |-> "https", event |-> "error"]>>
    /\ FailsWith(3)
    /\ pc = "done"

\* the function a registered argument stands for
Underlying(arg) ==
    IF arg.type = "function" /\ arg.name = "built" THEN arg.from ELSE arg

\* no use() call has registered $onError or the global error handler
NoErrorHandler ==
    \A i \in 1..Len(appStack) : \A j \in 1..Len(appStack[i]) :
        Underlying(appStack[i][j]) \notin
            {Func("$onError"), Func("GlobalErrorHandlerMiddleware")}

\* C7: once a step has failed, no later step of that run is executed: nothing
\* after the failed step is in the run; after a failing $onInit the DI
\* container is not loaded and no listener is started; after a failing
\* middleware hook no controller is loaded, no error handler is registered and
\* no listener is started; after a failing startServers $onReady is not invoked.
C7_FailureAborts ==
    Failed =>
        /\ \A i \in 1..Len(log) : Rank(log[i]) <= Rank(failed.step)
        /\ failed.step = "$onInit" =>
                ~injectorService /\ listenCalled = {}
        /\ failed.step \in {"importMiddlewares", "$onMountingMiddlewares"} =>
                /\ "ControllerService.load" \notin Range(log)
                /\ NoErrorHandler
                /\ listenCalled = {}
        /\ failed.step = "startServers" => "$onReady" \notin Range(log)

C7_Witness ==
    /\ pc = "done"
    /\ failed.step = "$onMountingMiddlewares"
    /\ Existing = Listeners
    /\ log = <<"$onInit", "InjectorService.load", "$onMountingMiddlewares">>

\* C8: whichever of $onInit, $onMountingMiddlewares, $afterRoutesInit and
\* $onReady the subclass leaves out, a run in which nothing fails goes through
\* all the other steps in the same order, without the calls of the hooks left
\* out, and resolves with undefined, as the run with every hook defined does.
C8_HookOptionality ==
    (pc = "done" /\ ~Failed) =>
        /\ log = ExpectedSteps
        /\ settled = "resolved"
        /\ result = Undefined

C8_Witness ==
    /\ pc = "done"
    /\ ~Failed
    /\ hooks \cap {"$onInit", "importMiddlewares", "$onMountingMiddlewares",
                   "$afterRoutesInit", "$onReady"} = {"$afterRoutesInit"}
    /\ log = <<"InjectorService.load", "ControllerService.load", "printRoutes",
               "mountStaticDirectories", "$afterRoutesInit", "errorHandlers", "startServers">>
    /\ result = Undefined

(***************************************************************************)
(* Properties of the public surface.                                       *)
(***************************************************************************)
\* the step is a call of use() by the subclass
IsUse == lastOp' = "use" /\ ops' = ops + 1

\* C12: a call of use(...args) adds exactly one registration to the
\* application, after the ones it has, with as many arguments as the call, in
\* the same order; with the injector resolved each function argument is
\* registered as its handler-builder wrapping and each other argument as it
\* is; with the injector not resolved every argument is registered as it is.
C12_UseRegistersOnce ==
    [][IsUse =>
        LET args == applied'.items
            registered == appStack'[Len(appStack')]
        IN  /\ Len(appStack') = Len(appStack) + 1
            /\ SubSeq(appStack', 1, Len(appStack)) = appStack
            /\ Len(registered) = Len(args)
            /\ \A j \in 1..Len(args) :
                    IF injectorService /\ args[j].type = "function"
                    THEN registered[j] = HandlerBuilder(args[j])
                    ELSE registered[j] = args[j]]_vars

\* one call made before the injector is resolved and one made after it, each
\* with a path, an object and two functions
C12_Witness ==
    /\ Len(useCalls) = 2
    /\ ~useCalls[1].injector
    /\ useCalls[2].injector
    /\ Len(useCalls[1].args) = 4
    /\ appStack[useCalls[1].at] = useCalls[1].args
    /\ appStack[useCalls[2].at] =
            <<Str("/api"), Obj(<< <<"router", Bool(TRUE)>> >>),
              HandlerBuilder(Func("mw")), HandlerBuilder(Func("mw2"))>>

\* the use() calls made from one of the hooks
CallsDuring(steps) == {k \in 1..Len(useCalls) : useCalls[k].during \in steps}

\* the call registered its function arguments wrapped
RegisteredWrapped(k) ==
    \A j \in 1..Len(useCalls[k].args) :
        useCalls[k].args[j].type = "function" =>
            appStack[useCalls[k].at][j] = HandlerBuilder(useCalls[k].args[j])

\* the call registered its arguments as they are
RegisteredPlain(k) == appStack[useCalls[k].at] = useCalls[k].args

\* C13 as stated: a use() call made before start(), in $onInit, in
\* $onMountingMiddlewares or in $afterRoutesInit registers its functions
\* without handler-builder wrapping.
C13_PlainBeforeInitialized ==
    \A k \in CallsDuring({"", "$onInit", "importMiddlewares", "$onMountingMiddlewares",
                          "$afterRoutesInit"}) : RegisteredPlain(k)

\* C13, amended: a use() call made before initializeSettings has resolved the
\* injector (before start() and in $onInit) registers its functions without
\* wrapping; a call made inside $onMountingMiddlewares or $afterRoutesInit,
\* which run after the injector is resolved, registers them wrapped.
C13_PlainUntilInjectorResolved ==
    /\ \A k \in CallsDuring({"", "$onInit"}) : RegisteredPlain(k)
    /\ \A k \in CallsDuring({"importMiddlewares", "$onMountingMiddlewares",
                              "$afterRoutesInit"}) : RegisteredWrapped(k)

C13_Witness ==
    /\ Len(useCalls) = 2
    /\ useCalls[1].during = "$onInit"
    /\ useCalls[2].during = "$onMountingMiddlewares"
    /\ useCalls[1].args = <<Func("mw")>>
    /\ appStack[useCalls[1].at] = <<Func("mw")>>
    /\ appStack[useCalls[2].at] =
            <<Str("/api"), Obj(<< <<"router", Bool(TRUE)>> >>),
              HandlerBuilder(Func("mw")), HandlerBuilder(Func("mw2"))>>

\* a registration of a static handler
IsStaticEntry(entry) ==
    /\ Len(entry) = 2
    /\ entry[2].type = "function"
    /\ Underlying(entry[2]).name = "static"

\* the static handlers registered, in order: mount path and directory
RegisteredStatic ==
    LET entries == SelectSeq(appStack, IsStaticEntry)
    IN  [i \in 1..Len(entries) |->
            [path |-> entries[i][1], dir |-> Underlying(entries[i][2]).dir]]

\* one handler per entry of the serveStatic mapping of the settings
DeclaredStatic ==
    LET dirs == Lookup(settings, "serveStatic")
    IN  IF ToBoolean(dirs)
        THEN [i \in 1..Len(dirs.entries) |->
                [path |-> Str(dirs.entries[i][1]), dir |-> dirs.entries[i][2]]]
        ELSE <<>>

\* mountStaticDirectories has run in start() and returned
StaticMounted ==
    "mountStaticDirectories" \in Range(log) /\ failed.step # "mountStaticDirectories"

\* C14: once mountStaticDirectories has run, the application holds exactly one
\* static handler per entry of the mapping, at that entry's mount path and for
\* that entry's directory, and none before; and every request that reached
\* such a handler either found the response sent, and then the handler called
\* next and did not invoke the static-file server, or found it not sent, and
\* then the handler invoked the static-file server for its directory and did
\* not call next itself.
C14_StaticHandlers ==
    /\ RegisteredStatic = (IF StaticMounted THEN DeclaredStatic ELSE <<>>)
    /\ \A r \in Range(handled) :
            /\ \E i \in 1..Len(RegisteredStatic) : RegisteredStatic[i].dir = r.dir
            /\ Len(r.serveStatic) + r.next = 1
            /\ r.headersSent => (r.next = 1 /\ r.serveStatic = <<>>)
            /\ ~r.headersSent => (r.next = 0 /\ r.serveStatic = <<r.dir>>)

\* two directories mounted, one request with the response sent and one without
C14_Witness ==
    /\ RegisteredStatic = <<[path |-> Str("/"), dir |-> Str("public")],
                            [path |-> Str("/docs"), dir |-> Str("docs")]>>
    /\ handled = <<[dir |-> Str("docs"), headersSent |-> TRUE, serveStatic |-> <<>>, next |-> 1],
                   [dir |-> Str("public"), headersSent |-> FALSE,
                    serveStatic |-> <<Str("public")>>, next |-> 0]>>

\* the positions of the application's stack where the function is registered
Positions(fn) ==
    {i \in 1..Len(appStack) :
        Len(appStack[i]) = 1 /\ Underlying(appStack[i][1]) = Func(fn)}

\* the last then-callback of initializeSettings has run and returned
ErrorHandlersRegistered ==
    "errorHandlers" \in Range(log) /\ failed.step # "errorHandlers"

\* the positions registered by the steps of initializeSettings that come before
\* its error handlers: the use() calls of $onMountingMiddlewares and of
\* $afterRoutesInit, and the static directories
RegisteredByEarlierSteps ==
    {useCalls[k].at : k \in CallsDuring({"importMiddlewares", "$onMountingMiddlewares",
                                         "$afterRoutesInit"})}
        \cup {i \in 1..Len(appStack) : IsStaticEntry(appStack[i])}

\* the positions registered after initializeSettings: the use() calls of
\* $onReady and of $onServerInitError
RegisteredLater == {useCalls[k].at : k \in CallsDuring({"$onReady", "$onServerInitError"})}

\* C17: once initializeSettings has registered its error handlers, the global
\* error handler is registered exactly once, $onError (when the subclass
\* defines it) exactly once and right before it, both after everything that
\* $onMountingMiddlewares, static directory mounting and $afterRoutesInit
\* registered and after controller loading, and only calls made after
\* initializeSettings come behind the global error handler; before that step
\* neither is registered.
C17_ErrorHandlersLast ==
    IF ErrorHandlersRegistered
    THEN \E g \in 1..Len(appStack) :
            LET first == IF "$onError" \in hooks THEN g - 1 ELSE g
            IN  /\ Positions("GlobalErrorHandlerMiddleware") = {g}
                /\ Positions("$onError") = {g - 1} \cap {i \in 1..g : "$onError" \in hooks}
                /\ \A i \in RegisteredByEarlierSteps : i < first
                /\ \A i \in (g + 1)..Len(appStack) : i \in RegisteredLater
                /\ \E c, e \in 1..Len(log) :
                        c < e /\ log[c] = "ControllerService.load" /\ log[e] = "errorHandlers"
    ELSE Positions("GlobalErrorHandlerMiddleware") = {} /\ Positions("$onError") = {}

\* $onError is defined, and a middleware was registered in each of the two
\* hooks of initializeSettings, behind the static directories or before them
C17_Witness ==
    /\ pc = "startServers"
    /\ "$onError" \in hooks
    /\ Len(appStack) = 6
    /\ useCalls[1].during = "$onMountingMiddlewares"
    /\ useCalls[2].during = "$afterRoutesInit"
    /\ Positions("$onError") = {5}
    /\ Positions("GlobalErrorHandlerMiddleware") = {6}

\* C20: in every step, calls of use, set, engine and mount made from inside a
\* hook included, the application instance stays the one created at
\* construction, and the HTTP (HTTPS) listener field changes only in the
\* constructor's autoload or in a call of createHttpServer (createHttpsServer);
\* and the steps of start() that have run are, in every state, the steps of the
\* pipeline in their order, as without such calls.
C20_FrameOfSurfaceCalls ==
    /\ [][/\ expressApp'.id = expressApp.id
          /\ httpServer' # httpServer =>
                \/ pc = "new" /\ lastOp' = "constructor"
                \/ ops' = ops + 1 /\ lastOp' = "createHttpServer"
          /\ httpsServer' # httpsServer =>
                \/ pc = "new" /\ lastOp' = "constructor"
                \/ ops' = ops + 1 /\ lastOp' = "createHttpsServer"]_vars
    /\ [](expressApp.id = Express.id /\ IsPrefix(log, ExpectedSteps))

\* a run through every hook without failure, in which $onInit called set and
\* $onMountingMiddlewares called createHttpServer on top of the declared listener
C20_Witness ==
    /\ pc = "done"
    /\ ~Failed
    /\ log = ExpectedSteps
    /\ Len(log) = Len(Pipeline) - 1
    /\ expressApp.settings # <<>>
    /\ httpServer = 2
    /\ lastOp = "createHttpServer"

\* C16: start() has rejected exactly when a stage failed and the defined
\* $onServerInitError itself threw or returned a promise that rejected; it has
\* then rejected with the error of the hook, not with the error of the stage.
C16_RejectsOnlyWhenErrorHookThrows ==
    /\ settled = "rejected" <=>
            (Failed /\ "$onServerInitError" \in hooks /\ ErrorHookThrew)
    /\ settled = "rejected" =>
            /\ pc = "done"
            /\ result = Err("$onServerInitError")
            /\ result # failed.err

C16_Witness ==
    /\ settled = "rejected"
    /\ failed.step = "$onReady"
    /\ initErrorCalls = << <<Err("$onReady")>> >>
    /\ result = Err("$onServerInitError")

\* the listeners that are up: they emitted "listening" and have not been closed
Listening == {l \in listenCalled : HasEmitted(l, "listening")}

\* C18: no step of a run, its failure handling included, changes the listener
\* fields or the listeners created, or takes down a listener that is up; and
\* when start() has settled after a failure, every listener that emitted
\* "listening" is still up and still the one the object holds.
C18_NoTeardown ==
    /\ [][pc # "new" =>
            /\ httpServer' = httpServer
            /\ httpsServer' = httpsServer
            /\ servers' = servers
            /\ Listening \subseteq Listening']_vars
    /\ []((pc = "done" /\ Failed) =>
            \A l \in Listeners : HasEmitted(l, "listening") => l \in Listening \cap Existing)

\* the HTTP listener is up, the HTTPS listener failed, and the error hook is through
C18_Witness ==
    /\ pc = "done"
    /\ failed.step = "startServers"
    /\ ErrorHookReturned
    /\ emitted = <<[listener |-> "http", event |-> "listening"],
                   [listener |-> "https", event |-> "error"]>>
    /\ Listening = {"http"}
    /\ httpServer # 0

\* the key comes before the other key in the settings object applied
DeclaredBefore(a, b) ==
    \E i, j \in 1..Len(applied.entries) :
        i < j /\ applied.entries[i][1] = a /\ applied.entries[j][1] = b

\* C19: the HTTPS listener that the constructor's autoload created for a
\* declared httpsPort was created with every declared httpsOptions entry, and
\* with port equal to the declared httpsPort, also when httpsOptions declares a
\* port of its own and whichever of the two keys the settings object lists
\* first; with no httpsOptions declared it was created with the port alone.
C19_HttpsOptionsMerged ==
    (pc = "constructed" /\ lastOp = "constructor" /\ httpsServer # 0) =>
        LET options == servers[httpsServer].options
            declared == Lookup(applied.entries, "httpsOptions")
        IN  /\ Lookup(options.entries, "port") = Lookup(applied.entries, "httpsPort")
            /\ IF declared = Undefined
               THEN options = Obj(<< <<"port", Lookup(applied.entries, "httpsPort")>> >>)
               ELSE /\ \A i \in 1..Len(declared.entries) :
                            declared.entries[i][1] # "port" =>
                                Lookup(options.entries, declared.entries[i][1])
                                    = declared.entries[i][2]
                    /\ {options.entries[i][1] : i \in 1..Len(options.entries)}
                            = {declared.entries[i][1] : i \in 1..Len(declared.entries)}
                                \cup {"port"}

\* httpsPort listed before httpsOptions, which declares a port of its own
C19_Witness ==
    /\ pc = "constructed"
    /\ lastOp = "constructor"
    /\ httpsServer # 0
    /\ DeclaredBefore("httpsPort", "httpsOptions")
    /\ Lookup(applied.entries, "httpsOptions") =
            Obj(<< <<"port", Num(1)>>, <<"key", Str("pem")>> >>)
    /\ servers[httpsServer].options =
            Obj(<< <<"port", Num(8443)>>, <<"key", Str("pem")>> >>)

\* the listeners created that have emitted nothing
Silent == {l \in Existing : EventsOf(l) = <<>>}

Settled == settled \in {"resolved", "rejected"}

\* a listener has emitted "error" without having emitted "listening" before
ListenerFailed == StartupErrors # {}

\* C15 as stated, for a run that has reached the wait of startServers: as long
\* as a created listener has emitted nothing, start() has not settled and
\* $onReady has not been invoked.
C15_SilentListenerStalls ==
    (AllBound /\ Silent # {}) => (~Settled /\ "$onReady" \notin Range(log))

\* C15, amended: as long as a created listener has emitted nothing, $onReady is
\* not invoked and start() has settled only through a failure; when listen()
\* was called on every listener and no listener has failed, start() has not
\* settled and waits in startServers. Conversely, when every hook settles and
\* every listener that listen() was called on emits a first event, a start()
\* that was called eventually settles.
C15_StallsUnlessFailure ==
    /\ [](Silent # {} =>
            /\ "$onReady" \notin Range(log)
            /\ Settled => Failed
            /\ (AllBound /\ ~ListenerFailed /\ "startServers" \in Range(log)) =>
                    (~Settled /\ awaiting = "startServers"))
    /\ (/\ WF_vars(HookSettles)
        /\ WF_vars(InitErrorSettles)
        /\ \A l \in Listeners : WF_vars(FirstEvent(l)))
            => ((settled = "pending") ~> Settled)

\* one listener has failed and start() has settled while the other is silent
C15_Witness ==
    /\ pc = "done"
    /\ Settled
    /\ Existing = Listeners
    /\ Silent = {"http"}
    /\ emitted = <<[listener |-> "https", event |-> "error"]>>
    /\ failed.step = "startServers"

====
